---------------------------- MODULE Spec2Model ----------------------------
(***************************************************************************)
(* A model of git-clean (src/main.go): the prefixWriter that labels the    *)
(* lines of a subprocess's output, the command runner, and main's          *)
(* sequence of git invocations.                                            *)
(*                                                                         *)
(* A byte is a one-character string, a byte slice a sequence of them.      *)
(* Indices into slices are 0-based, as in the Go source, and Slice(p,i,j)  *)
(* is Go's p[i:j].                                                         *)
(***************************************************************************)
EXTENDS Naturals, Integers, Sequences, FiniteSets, TLC

VARIABLES
    \* ---- one prefixWriter and its destination (lines 117-157)
    started,    \* prefixWriter.started
    prefix,     \* prefixWriter.prefix
    dest,       \* the bytes the destination pw.w has accepted so far
    input,      \* history: the concatenation of every p passed to Write
    lastP,      \* history: the argument of the latest Write call
    ret,        \* history: what the latest Write call returned, [n, err]
    log,        \* history: the calls of pw.w.Write the latest Write made
    nWrites,    \* history: the number of Write calls made
    failed,     \* history: some Write call returned an error
    prevStarted, \* history: started as it was before the latest Write call
    \* ---- one run of main (lines 25-115)
    pc,             \* where main is
    force,          \* the flag -f (line 21)
    verbose,        \* the flag -v (line 22)
    curOut,         \* what `git rev-parse --abbrev-ref HEAD` prints in this run
    remoteOut,      \* what `git remote show origin` prints in this run
    mergedOut,      \* what `git branch --merged` prints in this run
    cmd,            \* the subprocess cmd.Run is waiting for, or NoCmd
    currentBranch,  \* main's currentBranch (line 28)
    defaultBranch,  \* main's defaultBranch (line 30)
    mergedBranches, \* main's mergedBranches (line 37)
    idx,            \* the place of the range loop in mergedBranches (line 38)
    events,         \* history: what the run printed and the subprocesses it ran
    exitCode,       \* the exit status of the run, NotExited while it runs
    \* ---- the streams of runCmd (lines 94-115)
    outStarted, \* started of the prefixWriter of line 104
    errStarted, \* started of the prefixWriter of line 101
    capture,    \* the bytes.Buffer stdout of line 102
    returned,   \* history: the bytes the latest runCmd call returned
    osStdout,   \* what the program's standard output has accepted
    osStderr,   \* what the program's standard error has accepted
    outChunks,  \* history: the chunks the subprocess wrote to its stdout
    errChunks,  \* history: the chunks the subprocess wrote to its stderr
    outDest,    \* history: the bytes the stdout prefixWriter got accepted
    errDest,    \* history: the bytes the stderr prefixWriter got accepted
    outErr,     \* a Write of cmd.Stdout returned an error
    errErr,     \* a Write of cmd.Stderr returned an error
    nCmds,      \* history: the number of runCmd calls made
    nBytes      \* history: the number of bytes the subprocesses have written

pwVars == <<started, prefix, dest, input, lastP, ret, log, nWrites, failed,
            prevStarted>>

mainVars == <<pc, force, verbose, curOut, remoteOut, mergedOut, cmd,
              currentBranch, defaultBranch, mergedBranches, idx, events,
              exitCode>>

runVars == <<outStarted, errStarted, capture, returned, osStdout, osStderr,
             outChunks, errChunks, outDest, errDest, outErr, errErr, nCmds,
             nBytes>>

vars == <<pwVars, mainVars, runVars>>

-----------------------------------------------------------------------------
(* Bounds of the model. *)

\* The longest p one Write call is given.
MaxChunk == 3
\* The most bytes written to one prefixWriter over all its Write calls.
MaxData == 5
\* The most Write calls made on one prefixWriter.
MaxWrites == 4
\* The longest output of `git branch --merged`, in bytes.
MaxListing == 5
\* bufio.MaxScanTokenSize, 64 KiB in Go's bufio, scaled to the listings of
\* the model: the buffer of the bufio.Scanner of line 70 grows to this size.
ScanTokenBound == 4
\* The most runCmd calls, and the most lines printed by the caller, in the
\* runs that follow the streams of the subprocesses.
MaxCmds == 1
\* The most bytes the subprocesses of such a run write to their streams.
MaxStream == 3
\* The longest output of `git branch --merged` in the runs checked for
\* termination.
MaxFairListing == 3

-----------------------------------------------------------------------------
(* Bytes and slices. *)

NL == "\n"

\* Go's p[i:j], 0-based, j exclusive.
Slice(p, i, j) == SubSeq(p, i + 1, j)

\* All byte slices over the alphabet S of length at most n.
SeqsUpTo(S, n) == UNION {[1..k -> S] : k \in 0..n}

Min(a, b) == IF a < b THEN a ELSE b

\* The bytes a subprocess writes to a labelled stream in the model.
StreamByte == {NL, "a"}

PrefixStderr == <<"[", "c", "m", "d", "]", "[", "s", "t", "d", "e", "r", "r", "]", " ">>
PrefixStdout == <<"[", "c", "m", "d", "]", "[", "s", "t", "d", "o", "u", "t", "]", " ">>

\* unicode.IsSpace on the bytes of the model (strings.TrimSpace, bytes.TrimSpace).
IsSpace(b) == b \in {" ", "\t", "\n", "\r", "\f"}

RECURSIVE TrimLeft(_)
TrimLeft(s) ==
    IF s # <<>> /\ IsSpace(s[1]) THEN TrimLeft(Tail(s)) ELSE s

RECURSIVE TrimRight(_)
TrimRight(s) ==
    IF s # <<>> /\ IsSpace(s[Len(s)]) THEN TrimRight(SubSeq(s, 1, Len(s) - 1)) ELSE s

\* strings.TrimSpace, bytes.TrimSpace (lines 60, 65, 73).
TrimSpace(s) == TrimRight(TrimLeft(s))

\* strings.HasPrefix (line 74).
HasPrefix(s, pre) == Len(s) >= Len(pre) /\ SubSeq(s, 1, Len(pre)) = pre

-----------------------------------------------------------------------------
(* Subprocesses and the record of a run. *)

\* exec.Cmd: the program's name, its fixed arguments, and the branch that
\* deleteBranch appends (a sequence of no or one byte slice).
Cmd(args, branch) == [name |-> "git", args |-> args, branch |-> branch]

NoCmd == [name |-> "", args |-> <<>>, branch |-> <<>>]

\* line 64
CmdRevParse == Cmd(<<"rev-parse", "--abbrev-ref", "HEAD">>, <<>>)
\* line 53
CmdRemoteShow == Cmd(<<"remote", "show", "origin">>, <<>>)
\* line 69
CmdBranchMerged == Cmd(<<"branch", "--merged">>, <<>>)
\* line 85
CmdBranchForceDelete(branch) == Cmd(<<"branch", "-D">>, <<branch>>)
CmdBranchDelete(branch) == Cmd(<<"branch", "-d">>, <<branch>>)

\* The exit status of a run that has not exited.
NotExited == -1

\* An entry of `events`.  kind is
\*   "echo"    the line `[cmd] <command>` on standard output (line 98),
\*   "start"   cmd.Run starts the subprocess (line 109),
\*   "done"    cmd.Run returned nil (line 109),
\*   "failed"  cmd.Run returned an error (line 109),
\*   "report"  the line of line 43 on standard output, in bytes,
\*   "error"   an `[error]` line on standard error (lines 32, 56, 79, 110),
\*             bytes naming the place,
\*   "out"     the subprocess wrote the chunk `bytes` to its standard output,
\*   "err"     the subprocess wrote the chunk `bytes` to its standard error.
Event(kind, c, bytes) == [kind |-> kind, cmd |-> c, bytes |-> bytes]

-----------------------------------------------------------------------------
(* The destination pw.w, an io.Writer.  A call accepts all of its bytes    *)
(* and returns a nil error, or rejects the write: it then returns an error *)
(* with the count of bytes it accepted before failing.  `fail` says which  *)
(* call of the current prefixWriter.Write the destination rejects          *)
(* (fail.at, counted from 1; 0 for none) and how many bytes that call      *)
(* accepts (fail.n).                                                       *)

NoFail == [at |-> 0, n |-> 0]

Fails == {NoFail} \cup [at : 1..(2 * MaxChunk), n : 0..MaxChunk]

\* One call pw.w.Write(b), the (Len(calls)+1)-th of the current Write.
\* kind is "prefix" (line 152) or "data" (line 156).
DestWrite(kind, b, fail, calls) ==
    IF fail.at = Len(calls) + 1
    THEN [kind |-> kind, bytes |-> b, n |-> Min(fail.n, Len(b)), err |-> TRUE]
    ELSE [kind |-> kind, bytes |-> b, n |-> Len(b), err |-> FALSE]

\* The bytes the destination accepted over a sequence of calls.
RECURSIVE Accepted(_)
Accepted(calls) ==
    IF calls = <<>> THEN <<>>
    ELSE Accepted(SubSeq(calls, 1, Len(calls) - 1))
            \o SubSeq(calls[Len(calls)].bytes, 1, calls[Len(calls)].n)

-----------------------------------------------------------------------------
(* prefixWriter *)

\* line 151: the prefix is due when the writer is not in a line.
NeedsPrefixAlways(st) == TRUE
NeedsPrefix(st) == ~st

\* writeOnce with the result of the prefix write left unchecked.
writeOnceUncheckedPrefix(st, pre, p, fail, calls) ==
    LET cs == IF NeedsPrefix(st)
              THEN Append(calls, DestWrite("prefix", pre, fail, calls))
              ELSE calls
        c2 == DestWrite("data", p, fail, cs)
    IN  [n |-> c2.n, err |-> c2.err, calls |-> Append(cs, c2)]

\* lines 150-157.  Returns [n, err, calls].
writeOnce(st, pre, p, fail, calls) ==
    IF NeedsPrefix(st)
    THEN LET c1 == DestWrite("prefix", pre, fail, calls)
         IN  IF c1.err
             THEN [n |-> 0, err |-> TRUE, calls |-> Append(calls, c1)]
             ELSE LET c2 == DestWrite("data", p, fail, Append(calls, c1))
                  IN  [n |-> c2.n, err |-> c2.err,
                       calls |-> Append(Append(calls, c1), c2)]
    ELSE LET c2 == DestWrite("data", p, fail, calls)
         IN  [n |-> c2.n, err |-> c2.err, calls |-> Append(calls, c2)]

\* lines 125-131: the index of the first newline of p at or after start, or -1.
RECURSIVE IndexNewline(_, _)
IndexNewline(p, i) ==
    IF i >= Len(p) THEN -1
    ELSE IF p[i + 1] = NL THEN i
    ELSE IndexNewline(p, i + 1)

\* line 124: the loop condition.
LoopGuardInclusive(p, start) == start <= Len(p)
LoopGuard(p, start) == start < Len(p)

\* lines 138, 142: the count returned with a span's result.
ReturnCountSpanOnly(start, n) == n
ReturnCount(start, n) == start + n

\* lines 135-137: the flag after the trailing span without a newline.
StartedAfterTailUnset(st, err) == st
StartedAfterTailUnchecked(st, err) == TRUE
StartedAfterTail(st, err) == IF err THEN st ELSE TRUE

\* line 144: the flag after a span that ends with a newline was written.
StartedAfterLineKept(st) == st
StartedAfterLine(st) == FALSE

\* lines 123-148, from the loop's state (start, pw.started) on.
\* Returns [n, err, started, calls].
RECURSIVE WriteFrom(_, _, _, _, _, _)
WriteFrom(p, start, st, pre, fail, calls) ==
    IF ~LoopGuard(p, start)
    THEN [n |-> Len(p), err |-> FALSE, started |-> st, calls |-> calls]
    ELSE LET newlineIdx == IndexNewline(p, start)
         IN  IF newlineIdx = -1
             THEN LET r == writeOnce(st, pre, Slice(p, start, Len(p)), fail, calls)
                  IN  [n |-> ReturnCount(start, r.n), err |-> r.err,
                       started |-> StartedAfterTail(st, r.err),
                       calls |-> r.calls]
             ELSE LET r == writeOnce(st, pre, Slice(p, start, newlineIdx + 1),
                                     fail, calls)
                  IN  IF r.err
                      THEN [n |-> ReturnCount(start, r.n), err |-> TRUE,
                            started |-> st, calls |-> r.calls]
                      ELSE WriteFrom(p, newlineIdx + 1, StartedAfterLine(st),
                                     pre, fail, r.calls)

\* prefixWriter.Write(p) on a writer whose flag is st.
WriteResult(p, st, pre, fail) == WriteFrom(p, 0, st, pre, fail, <<>>)

-----------------------------------------------------------------------------
(* A prefixWriter fed chunk by chunk.  os/exec copies a subprocess's       *)
(* stream into the writer with io.Copy, which makes one Write call per     *)
(* chunk read and stops at the first Write that returns an error.          *)

\* No subprocess streams.
RunIdle ==
    /\ outStarted = FALSE
    /\ errStarted = FALSE
    /\ capture = <<>>
    /\ returned = <<>>
    /\ osStdout = <<>>
    /\ osStderr = <<>>
    /\ outChunks = <<>>
    /\ errChunks = <<>>
    /\ outDest = <<>>
    /\ errDest = <<>>
    /\ outErr = FALSE
    /\ errErr = FALSE
    /\ nCmds = 0
    /\ nBytes = 0

\* No run of main: the prefixWriter is exercised on its own.
MainIdle ==
    /\ pc = "idle"
    /\ force = FALSE
    /\ verbose = FALSE
    /\ curOut = <<>>
    /\ remoteOut = <<>>
    /\ mergedOut = <<>>
    /\ cmd = NoCmd
    /\ currentBranch = <<>>
    /\ defaultBranch = <<>>
    /\ mergedBranches = <<>>
    /\ idx = 0
    /\ events = <<>>
    /\ exitCode = NotExited

InitPW ==
    /\ MainIdle
    /\ RunIdle
    /\ started = FALSE
    /\ prefix \in {PrefixStderr, PrefixStdout}
    /\ dest = <<>>
    /\ input = <<>>
    /\ lastP = <<>>
    /\ ret = [n |-> 0, err |-> FALSE]
    /\ log = <<>>
    /\ nWrites = 0
    /\ failed = FALSE
    /\ prevStarted = FALSE

Write(p, fail) ==
    /\ ~failed
    /\ nWrites < MaxWrites
    /\ Len(input) + Len(p) <= MaxData
    /\ LET r == WriteResult(p, started, prefix, fail)
       IN  /\ started' = r.started
           /\ dest' = dest \o Accepted(r.calls)
           /\ ret' = [n |-> r.n, err |-> r.err]
           /\ log' = r.calls
           /\ failed' = r.err
    /\ input' = input \o p
    /\ lastP' = p
    /\ nWrites' = nWrites + 1
    /\ prevStarted' = started
    /\ UNCHANGED <<prefix, mainVars, runVars>>

NextPW == \E p \in SeqsUpTo(StreamByte, MaxChunk), fail \in Fails : Write(p, fail)

SpecPW == InitPW /\ [][NextPW]_vars

-----------------------------------------------------------------------------
(* getDefaultBranch's pattern and getMergedBranches' scan. *)

\* The literal of defaultBranchRegexp (line 50).
HeadBranchLiteral == <<"H", "E", "A", "D", " ", "b", "r", "a", "n", "c", "h", ":", " ">>

\* The index of the leftmost occurrence of lit in s at or after i, or -1.
RECURSIVE IndexOf(_, _, _)
IndexOf(s, lit, i) ==
    IF i + Len(lit) > Len(s) THEN -1
    ELSE IF Slice(s, i, i + Len(lit)) = lit THEN i
    ELSE IndexOf(s, lit, i + 1)

\* defaultBranchRegexp.FindSubmatch(out) (line 54): the leftmost match of
\* `HEAD branch: (.*)` and its group, which runs to the end of the line
\* (`.` matches no newline); <<>> when nothing matches.
FindSubmatch(out) ==
    LET i == IndexOf(out, HeadBranchLiteral, 0)
    IN  IF i = -1 THEN <<>>
        ELSE LET from == i + Len(HeadBranchLiteral)
                 nl == IndexNewline(out, from)
                 to == IF nl = -1 THEN Len(out) ELSE nl
             IN  <<Slice(out, i, to), Slice(out, from, to)>>

\* bufio's dropCR: ScanLines drops one trailing carriage return.
DropCR(data) ==
    IF data # <<>> /\ data[Len(data)] = "\r"
    THEN SubSeq(data, 1, Len(data) - 1)
    ELSE data

\* line 74: the line marks the checked-out branch.
IsCurrentMarkerStar(line) == HasPrefix(line, <<"*">>)
IsCurrentMarker(line) == HasPrefix(line, <<"*", " ">>)

\* The scan with the mark of a marked line cut off and its name kept.
RECURSIVE ScanFromKeepingMarked(_, _, _)
ScanFromKeepingMarked(out, pos, branches) ==
    IF pos >= Len(out)
    THEN [branches |-> branches, err |-> FALSE]
    ELSE LET nl == IndexNewline(out, pos)
             end == IF nl = -1 THEN Len(out) ELSE nl
         IN  IF end - pos >= ScanTokenBound
             THEN [branches |-> branches, err |-> TRUE]
             ELSE LET line == TrimSpace(DropCR(Slice(out, pos, end)))
                  IN  ScanFromKeepingMarked(
                          out, IF nl = -1 THEN Len(out) ELSE nl + 1,
                          Append(branches,
                                 IF IsCurrentMarker(line)
                                 THEN TrimSpace(SubSeq(line, 3, Len(line)))
                                 ELSE line))

\* lines 70-77: the scanner's loop from byte pos of out on.  A token is a
\* line without its newline; the scan stops with bufio.ErrTooLong when the
\* buffer is full and holds no newline, that is when a line has
\* ScanTokenBound bytes or more before its newline.  Returns [branches, err].
RECURSIVE ScanFrom(_, _, _)
ScanFrom(out, pos, branches) ==
    IF pos >= Len(out)
    THEN [branches |-> branches, err |-> FALSE]
    ELSE LET nl == IndexNewline(out, pos)
             end == IF nl = -1 THEN Len(out) ELSE nl
         IN  IF end - pos >= ScanTokenBound
             THEN [branches |-> branches, err |-> TRUE]
             ELSE LET line == TrimSpace(DropCR(Slice(out, pos, end)))
                  IN  ScanFrom(out, IF nl = -1 THEN Len(out) ELSE nl + 1,
                               IF ~IsCurrentMarker(line)
                               THEN Append(branches, line)
                               ELSE branches)

\* lines 70-81, on the bytes runCmd returned.
ScanBranches(out) == ScanFrom(out, 0, <<>>)

-----------------------------------------------------------------------------
(* One run of main.  The repository and git are the environment: what     *)
(* each git command prints in this run is drawn in Init, and every         *)
(* subprocess may fail (exit non-zero, fail to start, or pass its          *)
(* deadline).                                                              *)

\* The bytes of the merged-branch listing in the model.
ListingByte == {NL, " ", "*", "m"}

\* Outputs of `git rev-parse --abbrev-ref HEAD`.
CurOutputs == {<<"m", NL>>, <<"m", "m", NL>>}

\* The output of `git remote show origin` that names b as the HEAD branch.
RemoteShowing(b) ==
    <<"*", " ", "o", NL, " ", " ">> \o HeadBranchLiteral \o b \o <<NL, " ", " ", "m", NL>>

\* Outputs of `git remote show origin`: with and without a HEAD branch line.
RemoteOutputs ==
    {RemoteShowing(<<"m">>), RemoteShowing(<<"m", "m", " ">>), <<"*", " ", "o", NL>>}

\* No prefixWriter of its own: the run of main is observed by its events.
PWIdle ==
    /\ started = FALSE
    /\ prefix = PrefixStderr
    /\ dest = <<>>
    /\ input = <<>>
    /\ lastP = <<>>
    /\ ret = [n |-> 0, err |-> FALSE]
    /\ log = <<>>
    /\ nWrites = 0
    /\ failed = FALSE
    /\ prevStarted = FALSE

Init ==
    /\ PWIdle
    /\ RunIdle
    /\ pc = "getCurrentBranch"
    /\ force \in BOOLEAN
    /\ verbose \in BOOLEAN
    /\ curOut \in CurOutputs
    /\ remoteOut \in RemoteOutputs
    /\ mergedOut \in SeqsUpTo(ListingByte, MaxListing)
    /\ cmd = NoCmd
    /\ currentBranch = <<>>
    /\ defaultBranch = <<>>
    /\ mergedBranches = <<>>
    /\ idx = 0
    /\ events = <<>>
    /\ exitCode = NotExited

\* lines 95-99 and the start of cmd.Run (line 109).
RunCmdStart(c) ==
    /\ cmd' = c
    /\ events' = events \o (IF verbose THEN <<Event("echo", c, <<>>)>> ELSE <<>>)
                        \o <<Event("start", c, <<>>)>>

\* os.Exit(1) (lines 33, 57, 111).
Exit1 ==
    /\ pc' = "exited"
    /\ exitCode' = 1

\* lines 28, 64: getCurrentBranch starts its subprocess.
StartGetCurrentBranch ==
    /\ pc = "getCurrentBranch"
    /\ RunCmdStart(CmdRevParse)
    /\ pc' = "runRevParse"
    /\ UNCHANGED <<force, verbose, curOut, remoteOut, mergedOut, currentBranch,
                   defaultBranch, mergedBranches, idx, exitCode, pwVars, runVars>>

\* lines 109-112: cmd.Run returns an error; the run ends with status 1.
RunCmdFails ==
    /\ pc \in {"runRevParse", "runRemoteShow", "runBranchMerged", "runBranchDelete"}
    /\ events' = events \o <<Event("failed", cmd, <<>>), Event("error", cmd, <<"r", "u", "n">>)>>
    /\ cmd' = NoCmd
    /\ Exit1
    /\ UNCHANGED <<force, verbose, curOut, remoteOut, mergedOut, currentBranch,
                   defaultBranch, mergedBranches, idx, pwVars, runVars>>

\* lines 114, 65, 28: the subprocess succeeded.
FinishGetCurrentBranch ==
    /\ pc = "runRevParse"
    /\ events' = Append(events, Event("done", cmd, <<>>))
    /\ cmd' = NoCmd
    /\ currentBranch' = TrimSpace(curOut)
    /\ pc' = "getDefaultBranch"
    /\ UNCHANGED <<force, verbose, curOut, remoteOut, mergedOut,
                   defaultBranch, mergedBranches, idx, exitCode, pwVars, runVars>>

\* lines 30, 53
StartGetDefaultBranch ==
    /\ pc = "getDefaultBranch"
    /\ RunCmdStart(CmdRemoteShow)
    /\ pc' = "runRemoteShow"
    /\ UNCHANGED <<force, verbose, curOut, remoteOut, mergedOut, currentBranch,
                   defaultBranch, mergedBranches, idx, exitCode, pwVars, runVars>>

\* lines 54-60: the subprocess succeeded; the pattern is matched.
FinishGetDefaultBranch ==
    /\ pc = "runRemoteShow"
    /\ cmd' = NoCmd
    /\ LET bb == FindSubmatch(remoteOut)
       IN  IF Len(bb) # 2
           THEN /\ events' = events \o <<Event("done", cmd, <<>>),
                                         Event("error", NoCmd, <<"e", "x", "t", "r", "a", "c", "t">>)>>
                /\ Exit1
                /\ UNCHANGED defaultBranch
           ELSE /\ events' = Append(events, Event("done", cmd, <<>>))
                /\ defaultBranch' = TrimSpace(bb[2])
                /\ pc' = "checkBranch"
                /\ UNCHANGED exitCode
    /\ UNCHANGED <<force, verbose, curOut, remoteOut, mergedOut, currentBranch,
                   mergedBranches, idx, pwVars, runVars>>

\* line 31
RefusesNever(current, default) == FALSE
Refuses(current, default) == current # default

\* lines 31-34
CheckBranch ==
    /\ pc = "checkBranch"
    /\ IF Refuses(currentBranch, defaultBranch)
       THEN /\ events' = Append(events, Event("error", NoCmd, <<"b", "r", "a", "n", "c", "h">>))
            /\ Exit1
       ELSE /\ pc' = "getMergedBranches"
            /\ UNCHANGED <<events, exitCode>>
    /\ UNCHANGED <<force, verbose, curOut, remoteOut, mergedOut, cmd, currentBranch,
                   defaultBranch, mergedBranches, idx, pwVars, runVars>>

\* lines 37, 69
StartGetMergedBranches ==
    /\ pc = "getMergedBranches"
    /\ RunCmdStart(CmdBranchMerged)
    /\ pc' = "runBranchMerged"
    /\ UNCHANGED <<force, verbose, curOut, remoteOut, mergedOut, currentBranch,
                   defaultBranch, mergedBranches, idx, exitCode, pwVars, runVars>>

\* lines 70-81, 37: the subprocess succeeded; its output is scanned.  A
\* scanner error is printed and the branches scanned so far are returned.
FinishGetMergedBranches ==
    /\ pc = "runBranchMerged"
    /\ cmd' = NoCmd
    /\ LET r == ScanBranches(mergedOut)
       IN  /\ mergedBranches' = r.branches
           /\ events' = events \o <<Event("done", cmd, <<>>)>>
                  \o (IF r.err THEN <<Event("error", NoCmd, <<"s", "c", "a", "n">>)>> ELSE <<>>)
    /\ idx' = 1
    /\ pc' = "loop"
    /\ UNCHANGED <<force, verbose, curOut, remoteOut, mergedOut, currentBranch,
                   defaultBranch, exitCode, pwVars, runVars>>

\* lines 39-42
MsgDeleting == <<"[", "d", "e", "l", "e", "t", "i", "n", "g", "]">>
MsgWouldDelete == <<"[", "w", "o", "u", "l", "d", " ", "d", "e", "l", "e", "t", "e", "]">>
Msg(f) == IF ~f THEN MsgWouldDelete ELSE MsgDeleting

\* line 43: the bytes fmt.Printf("%s %s\n", msg, branch) prints.
ReportLine(msg, branch) == msg \o <<" ">> \o branch \o <<NL>>

\* line 44
DeletesAlways(f) == TRUE
Deletes(f) == f

\* lines 38-44: one pass of the loop, up to the call of deleteBranch.
Report ==
    /\ pc = "loop"
    /\ idx <= Len(mergedBranches)
    /\ events' = Append(events,
                        Event("report", NoCmd, ReportLine(Msg(force), mergedBranches[idx])))
    /\ IF Deletes(force)
       THEN pc' = "deleteBranch" /\ UNCHANGED idx
       ELSE idx' = idx + 1 /\ UNCHANGED pc
    /\ UNCHANGED <<force, verbose, curOut, remoteOut, mergedOut, cmd, currentBranch,
                   defaultBranch, mergedBranches, exitCode, pwVars, runVars>>

\* lines 45, 85
StartDeleteBranch ==
    /\ pc = "deleteBranch"
    /\ RunCmdStart(CmdBranchDelete(mergedBranches[idx]))
    /\ pc' = "runBranchDelete"
    /\ UNCHANGED <<force, verbose, curOut, remoteOut, mergedOut, currentBranch,
                   defaultBranch, mergedBranches, idx, exitCode, pwVars, runVars>>

\* lines 114, 86, 46: the subprocess succeeded; the loop goes on.
FinishDeleteBranch ==
    /\ pc = "runBranchDelete"
    /\ events' = Append(events, Event("done", cmd, <<>>))
    /\ cmd' = NoCmd
    /\ idx' = idx + 1
    /\ pc' = "loop"
    /\ UNCHANGED <<force, verbose, curOut, remoteOut, mergedOut, currentBranch,
                   defaultBranch, mergedBranches, exitCode, pwVars, runVars>>

\* line 38: the range loop is over.
LoopDoneNever(i, branches) == FALSE
LoopDone(i, branches) == i > Len(branches)

\* line 48: main returns, the run ends with status 0.
MainReturns ==
    /\ pc = "loop"
    /\ LoopDone(idx, mergedBranches)
    /\ pc' = "exited"
    /\ exitCode' = 0
    /\ UNCHANGED <<force, verbose, curOut, remoteOut, mergedOut, cmd, currentBranch,
                   defaultBranch, mergedBranches, idx, events, pwVars, runVars>>

Next ==
    \/ StartGetCurrentBranch
    \/ FinishGetCurrentBranch
    \/ StartGetDefaultBranch
    \/ FinishGetDefaultBranch
    \/ CheckBranch
    \/ StartGetMergedBranches
    \/ FinishGetMergedBranches
    \/ Report
    \/ StartDeleteBranch
    \/ FinishDeleteBranch
    \/ MainReturns
    \/ RunCmdFails

Spec == Init /\ [][Next]_vars

\* A run of main that keeps going: main takes its next step, and a started
\* subprocess returns or is ended by the deadline of line 89, which cmd.Run
\* reports as an error (RunCmdFails).
InitFair ==
    /\ Init
    /\ Len(mergedOut) <= MaxFairListing

SpecFair == InitFair /\ [][Next]_vars /\ WF_vars(Next)

-----------------------------------------------------------------------------
(* Properties of the prefixWriter, checked under SpecPW. *)

\* Byte i of data is the first byte of a line.
IsLineStart(data, i) == i = 1 \/ data[i - 1] = NL

LineStarts(data) == {i \in 1..Len(data) : IsLineStart(data, i)}

\* The first k bytes of data, with pre before the first byte of every line.
RECURSIVE PrefixedUpTo(_, _, _)
PrefixedUpTo(pre, data, k) ==
    IF k = 0 THEN <<>>
    ELSE PrefixedUpTo(pre, data, k - 1)
            \o (IF IsLineStart(data, k) THEN pre ELSE <<>>) \o <<data[k]>>

\* C1: after any sequence of successful Write calls on a fresh writer,
\* however the input was chunked, the destination holds the input with
\* exactly one prefix before the first byte of every line and none elsewhere.
C1_OnePrefixPerLine ==
    ~failed => dest = PrefixedUpTo(prefix, input, Len(input))

\* Two lines were written, and the latest call continued a line that an
\* earlier call had left open.
C1_Witness ==
    /\ ~failed
    /\ Len(lastP) > 0
    /\ Len(input) > Len(lastP)
    /\ input[Len(input) - Len(lastP)] # NL
    /\ \E i \in 1..(Len(input) - 1) : input[i] = NL

\* C2: chunking invariance: the destination bytes after writing the chunks
\* one by one equal those of one Write call of the whole data on a fresh
\* writer, when the destination never fails.
C2_ChunkingInvariance ==
    ~failed => dest = Accepted(WriteResult(input, FALSE, prefix, NoFail).calls)

\* At least three calls, the earlier ones ending exactly on a newline, the
\* latest one adding bytes after it.
C2_Witness ==
    /\ ~failed
    /\ nWrites >= 3
    /\ ~prevStarted
    /\ Len(lastP) > 0
    /\ Len(input) > Len(lastP)

\* The first k bytes of data with pre at the start of the first line and
\* immediately after every newline.
RECURSIVE EagerPrefixedUpTo(_, _, _)
EagerPrefixedUpTo(pre, data, k) ==
    IF k = 0 THEN <<>>
    ELSE EagerPrefixedUpTo(pre, data, k - 1)
            \o (IF k = 1 THEN pre ELSE <<>>) \o <<data[k]>>
            \o (IF data[k] = NL THEN pre ELSE <<>>)

\* C3 as stated: the prefix is at the very start of the first line and
\* immediately after every newline that has been written.
C3_PrefixAfterEveryNewline ==
    ~failed => dest = EagerPrefixedUpTo(prefix, input, Len(input))

\* The place in the destination of input byte i.
Pos(data, pre, i) == i + Len(pre) * Cardinality({j \in LineStarts(data) : j <= i})

\* C3, amended: the destination holds the input bytes in order, the prefix
\* stands right before the first byte of the first line and right before
\* every byte that follows a newline, and the destination holds nothing
\* else: no prefix inside a line, and none after a newline that no byte
\* follows yet.
C3_PrefixAtLineStartsOnly ==
    ~failed =>
        /\ Len(dest) = Len(input) + Len(prefix) * Cardinality(LineStarts(input))
        /\ \A i \in 1..Len(input) :
              /\ dest[Pos(input, prefix, i)] = input[i]
              /\ IsLineStart(input, i) =>
                    SubSeq(dest, Pos(input, prefix, i) - Len(prefix),
                           Pos(input, prefix, i) - 1) = prefix

\* One call wrote two lines and ended on a newline.
C3_Witness ==
    /\ ~failed
    /\ nWrites = 1
    /\ Cardinality(LineStarts(input)) >= 2
    /\ input[Len(input)] = NL

\* C4: when the destination accepts every write of a Write(p) call, the
\* call returns len(p) and a nil error, prefix bytes not counted.
C4_ReturnsLenOnSuccess ==
    (nWrites > 0 /\ \A i \in 1..Len(log) : ~log[i].err)
        => ret = [n |-> Len(lastP), err |-> FALSE]

\* A call that emitted two prefixes, made on a writer that was in a line.
C4_Witness ==
    /\ nWrites > 1
    /\ prevStarted
    /\ ~ret.err
    /\ Cardinality({i \in 1..Len(log) : log[i].kind = "prefix"}) >= 2

\* The input bytes the destination accepted over a sequence of calls.
RECURSIVE DataAccepted(_)
DataAccepted(calls) ==
    IF calls = <<>> THEN <<>>
    ELSE DataAccepted(SubSeq(calls, 1, Len(calls) - 1))
            \o (IF calls[Len(calls)].kind = "data"
                THEN SubSeq(calls[Len(calls)].bytes, 1, calls[Len(calls)].n)
                ELSE <<>>)

\* C5: when the destination rejects a write, Write returns the error, the
\* rejected call is the last call it makes on the destination, and the
\* count returned is the number of bytes of p the destination accepted:
\* those bytes are the first ret.n bytes of p, prefix bytes not counted.
C5_ErrorStopsAndCounts ==
    (\E i \in 1..Len(log) : log[i].err) =>
        /\ ret.err
        /\ \A i \in 1..Len(log) : log[i].err <=> i = Len(log)
        /\ ret.n = Len(DataAccepted(log))
        /\ DataAccepted(log) = SubSeq(lastP, 1, ret.n)

\* The destination accepted a first line, then part of the second span.
C5_Witness ==
    /\ ret.err
    /\ Len(log) >= 3
    /\ log[Len(log)].kind = "data"
    /\ log[Len(log)].n > 0
    /\ log[Len(log)].n < Len(log[Len(log)].bytes)

\* The destination rejected the prefix of a later span.
C5_WitnessPrefix ==
    /\ ret.err
    /\ ret.n > 0
    /\ log[Len(log)].kind = "prefix"

\* C6: a Write of no bytes returns 0 and a nil error, calls the destination
\* not at all, and leaves the destination bytes and the flag as they were.
C6_EmptyWriteNoOp ==
    [][(nWrites' = nWrites + 1 /\ lastP' = <<>>) =>
          /\ ret' = [n |-> 0, err |-> FALSE]
          /\ log' = <<>>
          /\ dest' = dest
          /\ started' = started]_vars

\* An empty Write was made on a writer in a line, and one on a writer that
\* was not.
C6_Witness ==
    /\ nWrites >= 2
    /\ lastP = <<>>
    /\ started
    /\ dest # <<>>

C6_WitnessAtLineStart ==
    /\ nWrites >= 1
    /\ lastP = <<>>
    /\ ~started

-----------------------------------------------------------------------------
(* Properties of a run of main, checked under Spec. *)

\* The branch names git reports in this run.
ReportedCurrent == TrimSpace(curOut)
RemoteReportsDefault == IndexOf(remoteOut, HeadBranchLiteral, 0) # -1
ReportedDefault == TrimSpace(FindSubmatch(remoteOut)[2])

IsStartOf(e, args) == e.kind = "start" /\ e.cmd.args = args

\* C7: in a run whose current branch differs from the default branch the
\* remote reports, the merged-branch listing is never started, no
\* `git branch -d` is started, and the run can only end with status 1
\* before it reaches the listing, with and without the force flag.
C7_DefaultBranchGate ==
    (RemoteReportsDefault /\ ReportedCurrent # ReportedDefault) =>
        /\ \A i \in 1..Len(events) :
              /\ ~IsStartOf(events[i], <<"branch", "--merged">>)
              /\ ~IsStartOf(events[i], <<"branch", "-d">>)
        /\ pc \in {"getCurrentBranch", "runRevParse", "getDefaultBranch",
                   "runRemoteShow", "checkBranch", "exited"}
        /\ pc = "exited" => exitCode = 1

\* A run in force mode that the gate refused.
C7_Witness ==
    /\ force
    /\ RemoteReportsDefault
    /\ ReportedCurrent # ReportedDefault
    /\ pc = "exited"
    /\ events[Len(events)].kind = "error"
    /\ events[Len(events)].bytes = <<"b", "r", "a", "n", "c", "h">>

IsReport(e) == e.kind = "report"

\* The lines printed for the candidate branches, in the order printed.
RECURSIVE Reports(_)
Reports(evs) ==
    IF evs = <<>> THEN <<>>
    ELSE Reports(SubSeq(evs, 1, Len(evs) - 1))
            \o (IF IsReport(evs[Len(evs)]) THEN <<evs[Len(evs)].bytes>> ELSE <<>>)

IsPrefixOf(a, b) == Len(a) <= Len(b) /\ SubSeq(b, 1, Len(a)) = a

WouldDeleteLine(branch) ==
    <<"[", "w", "o", "u", "l", "d", " ", "d", "e", "l", "e", "t", "e", "]", " ">>
        \o branch \o <<NL>>

\* C8: in a run without the force flag no `git branch -d` is ever started,
\* whatever the listing holds; the lines reported for the candidates are
\* `[would delete] <name>`, one per candidate in listing order, all of them
\* when the run ends normally.
C8_DryRunNonDestructive ==
    ~force =>
        LET want == [i \in 1..Len(mergedBranches) |-> WouldDeleteLine(mergedBranches[i])]
        IN  /\ \A i \in 1..Len(events) :
                  events[i].kind = "start" => events[i].cmd.branch = <<>>
            /\ \A i \in 1..Len(events) : ~IsStartOf(events[i], <<"branch", "-d">>)
            /\ IsPrefixOf(Reports(events), want)
            /\ exitCode = 0 => Reports(events) = want

\* A dry run that ended normally with two different candidates.
C8_Witness ==
    /\ ~force
    /\ exitCode = 0
    /\ Len(mergedBranches) >= 2
    /\ mergedBranches[1] # mergedBranches[2]

\* A report line, or the start or the completion of a subprocess other
\* than the three that main runs before its loop.
IsLoopEvent(e) ==
    \/ e.kind = "report"
    \/ /\ e.kind \in {"start", "done"}
       /\ e.cmd.args \notin {<<"rev-parse", "--abbrev-ref", "HEAD">>,
                             <<"remote", "show", "origin">>,
                             <<"branch", "--merged">>}

RECURSIVE LoopEvents(_)
LoopEvents(evs) ==
    IF evs = <<>> THEN <<>>
    ELSE LoopEvents(SubSeq(evs, 1, Len(evs) - 1))
            \o (IF IsLoopEvent(evs[Len(evs)]) THEN <<evs[Len(evs)]>> ELSE <<>>)

DeletingLine(branch) ==
    <<"[", "d", "e", "l", "e", "t", "i", "n", "g", "]", " ">> \o branch \o <<NL>>

GitBranchD(branch) == [name |-> "git", args |-> <<"branch", "-d">>, branch |-> <<branch>>]

\* For every candidate in order: its `[deleting]` line, the start of its
\* `git branch -d`, the completion of that subprocess.
RECURSIVE ForceSchedule(_)
ForceSchedule(branches) ==
    IF branches = <<>> THEN <<>>
    ELSE LET b == branches[Len(branches)]
         IN  ForceSchedule(SubSeq(branches, 1, Len(branches) - 1))
                \o <<[kind |-> "report", cmd |-> NoCmd, bytes |-> DeletingLine(b)],
                     [kind |-> "start", cmd |-> GitBranchD(b), bytes |-> <<>>],
                     [kind |-> "done", cmd |-> GitBranchD(b), bytes |-> <<>>]>>

\* C9: in force mode the run reports and deletes the candidates one after
\* the other in listing order: `[deleting] <name>` is printed, then
\* `git branch -d <name>` is started, and it completes before the next
\* candidate's line is printed; a run in which every command succeeds makes
\* exactly one such invocation per candidate.
C9_ForceDeletesInOrder ==
    force =>
        /\ IsPrefixOf(LoopEvents(events), ForceSchedule(mergedBranches))
        /\ exitCode = 0 => LoopEvents(events) = ForceSchedule(mergedBranches)

\* A run in force mode that ended normally with two different candidates.
C9_Witness ==
    /\ force
    /\ exitCode = 0
    /\ Len(mergedBranches) >= 2
    /\ mergedBranches[1] # mergedBranches[2]

-----------------------------------------------------------------------------
(* The candidates against the lines of the listing. *)

SetMax(S) == CHOOSE x \in S : \A y \in S : y <= x
SetMin(S) == CHOOSE x \in S : \A y \in S : x <= y

\* The places where the lines of out end: its newlines, and the place after
\* its last byte when that byte is no newline.
LineEnds(out) ==
    {i \in 1..Len(out) : out[i] = NL}
        \cup (IF out # <<>> /\ out[Len(out)] # NL THEN {Len(out) + 1} ELSE {})

\* The line of out that ends at e, without its newline.
LineEndingAt(out, e) ==
    LET before == {j \in LineEnds(out) : j < e}
    IN  SubSeq(out, IF before = {} THEN 1 ELSE SetMax(before) + 1, e - 1)

\* The lines of out, in order.
Lines(out) ==
    [k \in 1..Cardinality(LineEnds(out)) |->
        LineEndingAt(out, CHOOSE e \in LineEnds(out) :
                             Cardinality({j \in LineEnds(out) : j <= e}) = k)]

\* s without the whitespace around it.
Trimmed(s) ==
    LET ink == {i \in 1..Len(s) : ~IsSpace(s[i])}
    IN  IF ink = {} THEN <<>> ELSE SubSeq(s, SetMin(ink), SetMax(ink))

MarksCheckedOut(line) == Len(line) >= 2 /\ line[1] = "*" /\ line[2] = " "

IsCandidate(line) == ~MarksCheckedOut(line)

\* One entry per line of the listing, trimmed, but for the lines that mark
\* the checked-out branch.
CandidatesOf(out) ==
    SelectSeq([k \in 1..Len(Lines(out)) |-> Trimmed(Lines(out)[k])], IsCandidate)

\* getMergedBranches has returned.
Listed == pc \in {"loop", "deleteBranch", "runBranchDelete"} \/ exitCode = 0

\* C10: the candidate sequence holds, in listing order, one entry for
\* every line of the listing except the lines that mark the checked-out
\* branch, each entry the trimmed line; no other line is dropped and no
\* entry is added.
C10_CandidatesAreTheListedLines ==
    Listed => mergedBranches = CandidatesOf(mergedOut)

\* The scanner of line 70 reported an error in this run.
ScanFailed ==
    \E i \in 1..Len(events) :
        events[i].kind = "error" /\ events[i].bytes = <<"s", "c", "a", "n">>

\* C10 holds of every run in which the scanner reports no error.
C10_CandidatesWhenScanSucceeds ==
    (Listed /\ ~ScanFailed) => mergedBranches = CandidatesOf(mergedOut)

\* When the scanner reports an error the candidates are those of the
\* lines before the line that is too long.
C10_CandidatesWhenScanFails ==
    (Listed /\ ScanFailed) =>
        /\ IsPrefixOf(mergedBranches, CandidatesOf(mergedOut))
        /\ \E k \in 1..Len(Lines(mergedOut)) :
              /\ Len(Lines(mergedOut)[k]) >= ScanTokenBound
              /\ \A j \in 1..(k - 1) : Len(Lines(mergedOut)[j]) < ScanTokenBound
              /\ mergedBranches =
                    SelectSeq([j \in 1..(k - 1) |-> Trimmed(Lines(mergedOut)[j])],
                              IsCandidate)

-----------------------------------------------------------------------------
(* Failures and the exit status, checked under Spec. *)

\* A step of the run failed: cmd.Run returned an error, or an `[error]`
\* line was printed.
IsFailure(e) == e.kind \in {"failed", "error"}

\* The run went on after the failure: it started a subprocess or printed a
\* line for a candidate.
IsProgress(e) == e.kind \in {"start", "report"}

\* C11: every failure is immediately fatal: after the first failure of any
\* step (a subprocess failing, the default-branch pattern not found, the
\* branch check refusing, an error while scanning the listing) no further
\* subprocess is started and no further line is printed for a candidate.
C11_NothingAfterFailure ==
    \A i \in 1..Len(events) : \A j \in (i + 1)..Len(events) :
        IsFailure(events[i]) => ~IsProgress(events[j])

\* C11 holds of every run in which the scanner reports no error: the other
\* failures end the run at once, and nothing is started to undo a deletion.
C11_NothingAfterFatalFailure ==
    ~ScanFailed =>
        /\ C11_NothingAfterFailure
        /\ (\E i \in 1..Len(events) : IsFailure(events[i])) => pc = "exited" /\ exitCode = 1

\* After a scanner error the run goes on with the candidates scanned
\* before it, and can end with status 0.
C11_ScanErrorRunGoesOn ==
    /\ ScanFailed
    /\ force
    /\ exitCode = 0
    /\ mergedBranches # <<>>

\* A fatal error of the run: a subprocess failed, the remote output holds
\* no HEAD branch line, or the current branch is not the default branch.
FatalError ==
    \/ \E i \in 1..Len(events) : events[i].kind = "failed"
    \/ ~RemoteReportsDefault
    \/ ReportedCurrent # ReportedDefault

\* Every subprocess of the run was started and returned, and every
\* candidate got its line.
CompletedNormally ==
    /\ \A i \in 1..Len(events) : events[i].kind # "failed"
    /\ Cardinality({i \in 1..Len(events) : events[i].kind = "start"})
          = Cardinality({i \in 1..Len(events) : events[i].kind = "done"})
    /\ Cardinality({i \in 1..Len(events) : events[i].kind = "done"})
          = 3 + (IF force THEN Len(mergedBranches) ELSE 0)
    /\ Len(Reports(events)) = Len(mergedBranches)

C12_WitnessNormal ==
    /\ pc = "exited"
    /\ exitCode = 0
    /\ force
    /\ mergedBranches # <<>>

-----------------------------------------------------------------------------
(* The flag of the prefixWriter, checked under SpecPW. *)

\* C15: after any sequence of successful Write calls on a fresh writer the
\* flag started is true if and only if at least one byte was forwarded and
\* the last byte forwarded is not a newline.
C15_StartedIffMidLine ==
    ~failed => (started <=> (input # <<>> /\ input[Len(input)] # NL))

\* The flag was set by one call and cleared again by a later one that ended
\* on a newline.
C15_Witness ==
    /\ ~failed
    /\ nWrites >= 2
    /\ prevStarted
    /\ ~started
    /\ lastP # <<>>

\* The latest Write wrote a span before the one that failed.
WroteASpan ==
    \E i \in 1..Len(log) : log[i].kind = "data" /\ ~log[i].err

\* C18: when the destination rejects the prefix write or the span write of
\* a span, the flag keeps the value it had before that span: the value from
\* before the call when the span is the first of the call, false when a
\* newline-terminated span of the same call was written before it; also
\* when the prefix or part of the span has reached the destination.
C18_FailedSpanKeepsFlag ==
    ret.err => started = (IF WroteASpan THEN FALSE ELSE prevStarted)

\* The span write failed on a writer that was in a line, after part of the
\* span had reached the destination.
C18_Witness ==
    /\ ret.err
    /\ prevStarted
    /\ started
    /\ Len(log) = 1
    /\ log[1].n > 0

\* The span write failed after the prefix of that span had reached the
\* destination: the flag is still false.
C18_WitnessAfterPrefix ==
    /\ ret.err
    /\ ~started
    /\ Len(log) >= 2
    /\ log[Len(log)].kind = "data"
    /\ log[Len(log) - 1].kind = "prefix"

-----------------------------------------------------------------------------
(* Termination, checked under SpecFair. *)

\* The subprocesses started so far in the run.
StartCount == Cardinality({i \in 1..Len(events) : events[i].kind = "start"})

\* C16: every run eventually ends with status 0 or 1, and it starts at most
\* 3 subprocesses plus one per candidate branch: no step is retried.
C16_Terminates ==
    /\ [](StartCount <= 3 + Len(mergedBranches))
    /\ <>(pc = "exited" /\ exitCode \in {0, 1})

\* A run that ended after starting 3 subprocesses and one per candidate,
\* two candidates at least.
C16_Witness ==
    /\ pc = "exited"
    /\ Len(mergedBranches) >= 2
    /\ StartCount = 3 + Len(mergedBranches)

-----------------------------------------------------------------------------
(* The branch that is checked out, checked under Spec. *)

\* The listing marks the line of the checked-out branch: that branch is
\* named on no line but one that starts with `* `.
ListingMarksCurrent ==
    \A k \in 1..Len(Lines(mergedOut)) :
        Trimmed(Lines(mergedOut)[k]) # ReportedCurrent

\* C17: when the listing marks the line of the checked-out branch, no
\* `git branch -d` is started for the current branch nor, deletions being
\* behind the branch check, for the default branch.
C17_NeverDeletesCurrentOrDefault ==
    ListingMarksCurrent =>
        \A i \in 1..Len(events) :
            (events[i].kind = "start" /\ events[i].cmd.branch # <<>>) =>
                /\ events[i].cmd.branch[1] # ReportedCurrent
                /\ RemoteReportsDefault
                /\ events[i].cmd.branch[1] # ReportedDefault

\* A run in force mode whose listing holds the marked line of the current
\* branch and a candidate, which was deleted.
C17_Witness ==
    /\ force
    /\ exitCode = 0
    /\ mergedBranches # <<>>
    /\ \E k \in 1..Len(Lines(mergedOut)) :
          Trimmed(Lines(mergedOut)[k]) = <<"*", " ">> \o ReportedCurrent


-----------------------------------------------------------------------------
(* runCmd with the streams of its subprocess.  The caller is main seen     *)
(* from runCmd: between two calls it may print a candidate's line (line    *)
(* 43).  While cmd.Run waits, os/exec copies each stream of the subprocess *)
(* into cmd.Stdout and cmd.Stderr, one Write per chunk read, in two        *)
(* goroutines that take their steps in any order; a copy stops at the      *)
(* first Write that returns an error, and cmd.Run then returns an error.   *)

\* The commands main passes to runCmd, in the model.
RunCmds == {CmdBranchMerged}

\* The rejections of a destination in one Write of a stream.
StreamFails == {NoFail} \cup [at : 1..2, n : 0..1]

\* The non-empty chunks io.Copy passes to Write.
Chunks == SeqsUpTo(StreamByte, MaxChunk) \ {<<>>}

RECURSIVE Concat(_)
Concat(chunks) ==
    IF chunks = <<>> THEN <<>>
    ELSE Concat(SubSeq(chunks, 1, Len(chunks) - 1)) \o chunks[Len(chunks)]

\* lines 103-107: where cmd.Stdout sends a chunk.  With verbose the
\* io.MultiWriter writes to the prefixWriter first and to the buffer next.
StdoutSinksNoTee(v) == IF v THEN {"prefix"} ELSE {"buffer"}
StdoutSinksAlwaysTee(v) == {"prefix", "buffer"}
StdoutSinks(v) == IF v THEN {"prefix", "buffer"} ELSE {"buffer"}

\* lines 101, 104, 151: each prefixWriter is a value of its own, and Write
\* reads started through its receiver.
ReceiverStartedShared(own, other) == other
ReceiverStarted(own, other) == own

\* The program's standard output and standard error hold entries of kind
\*   "echo"    the line of line 98,
\*   "report"  the line of line 43,
\*   "stdout"  bytes accepted from the prefixWriter of line 104,
\*   "stderr"  bytes accepted from the prefixWriter of line 101,
\*   "error"   the line of line 110.
Emit(stream, kind, c, bytes) ==
    IF bytes = <<>> /\ kind \in {"stdout", "stderr"} THEN stream
    ELSE Append(stream, Event(kind, c, bytes))

InitRun ==
    /\ PWIdle
    /\ RunIdle
    /\ pc = "caller"
    /\ force \in BOOLEAN
    /\ verbose \in BOOLEAN
    /\ curOut = <<>>
    /\ remoteOut = <<>>
    /\ mergedOut = <<>>
    /\ cmd = NoCmd
    /\ currentBranch = <<>>
    /\ defaultBranch = <<>>
    /\ mergedBranches = <<>>
    /\ idx = 0
    /\ events = <<>>
    /\ exitCode = NotExited

\* line 43: the caller prints the line of a candidate.
CallerReports ==
    /\ pc = "caller"
    /\ Len(Reports(events)) < MaxCmds
    /\ events' = Append(events, Event("report", NoCmd, ReportLine(Msg(force), <<"m">>)))
    /\ osStdout' = Emit(osStdout, "report", NoCmd, ReportLine(Msg(force), <<"m">>))
    /\ UNCHANGED <<pc, force, verbose, curOut, remoteOut, mergedOut, cmd, currentBranch,
                   defaultBranch, mergedBranches, idx, exitCode, pwVars,
                   outStarted, errStarted, capture, returned, osStderr, outChunks,
                   errChunks, outDest, errDest, outErr, errErr, nCmds, nBytes>>

\* lines 95-109: the echo, the two writers and the buffer, the start of
\* the subprocess.
RunCmdBegins(c) ==
    /\ pc = "caller"
    /\ nCmds < MaxCmds
    /\ RunCmdStart(c)
    /\ osStdout' = (IF verbose THEN Emit(osStdout, "echo", c, <<>>) ELSE osStdout)
    /\ outStarted' = FALSE
    /\ errStarted' = FALSE
    /\ capture' = <<>>
    /\ outChunks' = <<>>
    /\ errChunks' = <<>>
    /\ outDest' = <<>>
    /\ errDest' = <<>>
    /\ outErr' = FALSE
    /\ errErr' = FALSE
    /\ nCmds' = nCmds + 1
    /\ pc' = "running"
    /\ UNCHANGED <<force, verbose, curOut, remoteOut, mergedOut, currentBranch,
                   defaultBranch, mergedBranches, idx, exitCode, pwVars,
                   returned, osStderr, nBytes>>

\* lines 103-107: one Write of cmd.Stdout with a chunk of the subprocess's
\* standard output.  The buffer is written only after the prefixWriter
\* returned without error; a bytes.Buffer accepts every write.
SubprocessStdout(p, fail) ==
    /\ pc = "running"
    /\ ~outErr
    /\ nBytes + Len(p) <= MaxStream
    /\ nBytes' = nBytes + Len(p)
    /\ LET sinks == StdoutSinks(verbose)
           r == IF "prefix" \in sinks
                THEN WriteResult(p, ReceiverStarted(outStarted, errStarted),
                                 PrefixStdout, fail)
                ELSE [n |-> Len(p), err |-> FALSE, started |-> outStarted, calls |-> <<>>]
       IN  /\ outStarted' = r.started
           /\ osStdout' = Emit(osStdout, "stdout", cmd, Accepted(r.calls))
           /\ outDest' = outDest \o Accepted(r.calls)
           /\ capture' = (IF "buffer" \in sinks /\ ~r.err THEN capture \o p ELSE capture)
           /\ outErr' = r.err
    /\ outChunks' = Append(outChunks, p)
    /\ events' = Append(events, Event("out", cmd, p))
    /\ UNCHANGED <<pc, force, verbose, curOut, remoteOut, mergedOut, cmd, currentBranch,
                   defaultBranch, mergedBranches, idx, exitCode, pwVars, errStarted, returned, osStderr, errChunks,
                   errDest, errErr, nCmds>>

\* line 101: one Write of cmd.Stderr with a chunk of the subprocess's
\* standard error.
SubprocessStderr(p, fail) ==
    /\ pc = "running"
    /\ ~errErr
    /\ nBytes + Len(p) <= MaxStream
    /\ nBytes' = nBytes + Len(p)
    /\ LET r == WriteResult(p, ReceiverStarted(errStarted, outStarted),
                            PrefixStderr, fail)
       IN  /\ errStarted' = r.started
           /\ osStderr' = Emit(osStderr, "stderr", cmd, Accepted(r.calls))
           /\ errDest' = errDest \o Accepted(r.calls)
           /\ errErr' = r.err
    /\ errChunks' = Append(errChunks, p)
    /\ events' = Append(events, Event("err", cmd, p))
    /\ UNCHANGED <<pc, force, verbose, curOut, remoteOut, mergedOut, cmd, currentBranch,
                   defaultBranch, mergedBranches, idx, exitCode, pwVars, outStarted, capture, returned, osStdout,
                   outChunks, outDest, outErr, nCmds>>

\* lines 109, 114: cmd.Run returns nil, which it does only when no copy
\* failed; runCmd returns the bytes of the buffer.
RunCmdReturns ==
    /\ pc = "running"
    /\ ~outErr
    /\ ~errErr
    /\ returned' = capture
    /\ events' = Append(events, Event("done", cmd, <<>>))
    /\ cmd' = NoCmd
    /\ pc' = "caller"
    /\ UNCHANGED <<force, verbose, curOut, remoteOut, mergedOut, currentBranch,
                   defaultBranch, mergedBranches, idx, exitCode, pwVars,
                   outStarted, errStarted, capture, osStdout, osStderr, outChunks,
                   errChunks, outDest, errDest, outErr, errErr, nCmds, nBytes>>

\* lines 109-112: cmd.Run returns an error (the subprocess failed, passed
\* its deadline, or a copy failed); the error is printed and the run ends.
RunCmdExits ==
    /\ pc = "running"
    /\ events' = events \o <<Event("failed", cmd, <<>>), Event("error", cmd, <<"r", "u", "n">>)>>
    /\ osStderr' = Emit(osStderr, "error", cmd, <<"r", "u", "n">>)
    /\ cmd' = NoCmd
    /\ Exit1
    /\ UNCHANGED <<force, verbose, curOut, remoteOut, mergedOut, currentBranch,
                   defaultBranch, mergedBranches, idx, pwVars,
                   outStarted, errStarted, capture, returned, osStdout, outChunks,
                   errChunks, outDest, errDest, outErr, errErr, nCmds, nBytes>>

\* line 48: main returns.
CallerReturns ==
    /\ pc = "caller"
    /\ pc' = "exited"
    /\ exitCode' = 0
    /\ UNCHANGED <<force, verbose, curOut, remoteOut, mergedOut, cmd, currentBranch,
                   defaultBranch, mergedBranches, idx, events, pwVars, runVars>>

NextRun ==
    \/ CallerReports
    \/ \E c \in RunCmds : RunCmdBegins(c)
    \/ \E p \in Chunks, fail \in StreamFails : SubprocessStdout(p, fail)
    \/ \E p \in Chunks, fail \in StreamFails : SubprocessStderr(p, fail)
    \/ RunCmdReturns
    \/ RunCmdExits
    \/ CallerReturns

SpecRun == InitRun /\ [][NextRun]_vars

-----------------------------------------------------------------------------
(* The bytes runCmd returns, checked under SpecRun. *)

\* The latest runCmd call has returned to its caller.
HasReturned == pc = "caller" /\ nCmds > 0

Bytes(seq) == {seq[k] : k \in 1..Len(seq)}

\* C13: when the subprocess completes successfully, runCmd returns the
\* concatenation of the chunks the subprocess wrote to its standard output.
\* The value is a function of the chunks alone, so it is the same with and
\* without verbose, and it holds no byte of a prefix.
C13_CaptureIndependentOfVerbosity ==
    HasReturned => returned = Concat(outChunks)

\* A verbose run: the output came in two chunks or more, held a line end,
\* and reached the program's standard output with prefixes added.
C13_Witness ==
    /\ HasReturned
    /\ verbose
    /\ Len(outChunks) >= 2
    /\ NL \in Bytes(returned)
    /\ Len(outDest) > Len(returned)

\* The same without verbose.
C13_WitnessQuiet ==
    /\ HasReturned
    /\ ~verbose
    /\ Len(outChunks) >= 2
    /\ NL \in Bytes(returned)

-----------------------------------------------------------------------------
(* Where the streams go, checked under SpecRun. *)

\* The bytes of the entries of one kind on a stream of the program.
RECURSIVE BytesOfKind(_, _)
BytesOfKind(stream, kind) ==
    IF stream = <<>> THEN <<>>
    ELSE BytesOfKind(SubSeq(stream, 1, Len(stream) - 1), kind)
            \o (IF stream[Len(stream)].kind = kind THEN stream[Len(stream)].bytes ELSE <<>>)

IsSuffixOf(a, b) == Len(a) <= Len(b) /\ SubSeq(b, Len(b) - Len(a) + 1, Len(b)) = a

\* data with pre before the first byte of every line.
Labelled(pre, data) == PrefixedUpTo(pre, data, Len(data))

\* Standard error of the subprocess of the current command is on the
\* program's standard error, labelled `[cmd][stderr] `.
StderrForwarded ==
    /\ IsSuffixOf(errDest, BytesOfKind(osStderr, "stderr"))
    /\ ~errErr => errDest = Labelled(PrefixStderr, Concat(errChunks))

\* Standard output of the subprocess of the current command is on the
\* program's standard output, labelled `[cmd][stdout] `.
StdoutForwarded ==
    /\ IsSuffixOf(outDest, BytesOfKind(osStdout, "stdout"))
    /\ ~outErr => outDest = Labelled(PrefixStdout, Concat(outChunks))

\* Every subprocess start comes right after the echo of its command.
EchoBeforeEveryStart ==
    \A k \in 1..Len(events) :
        events[k].kind = "start"
            => /\ k > 1
               /\ events[k - 1] = Event("echo", events[k].cmd, <<>>)
               /\ Event("echo", events[k].cmd, <<>>) \in Bytes(osStdout)

\* C14: standard error of the subprocess is forwarded, labelled
\* `[cmd][stderr] `, to the program's standard error with and without
\* verbose.  With verbose, standard output of the subprocess is forwarded,
\* labelled `[cmd][stdout] `, to the program's standard output and the echo
\* of the command is printed before the subprocess starts.  Without verbose
\* there is no echo and the program's standard output holds nothing but the
\* lines printed for the candidates.
C14_StreamRouting ==
    /\ StderrForwarded
    /\ \A k \in 1..Len(osStderr) : osStderr[k].kind \in {"stderr", "error"}
    /\ verbose => StdoutForwarded /\ EchoBeforeEveryStart
    /\ ~verbose => /\ \A k \in 1..Len(events) : events[k].kind # "echo"
                   /\ \A k \in 1..Len(osStdout) :
                         /\ osStdout[k].kind = "report"
                         /\ osStdout[k].bytes = ReportLine(Msg(force), <<"m">>)

\* Without verbose: the subprocess wrote to both of its streams, its
\* standard error was forwarded, and a candidate's line was printed.
C14_Witness ==
    /\ ~verbose
    /\ outChunks # <<>>
    /\ errDest # <<>>
    /\ osStdout # <<>>

\* With verbose: both streams were forwarded after the echo.
C14_WitnessVerbose ==
    /\ verbose
    /\ Len(outDest) > Len(PrefixStdout)
    /\ Len(errDest) > Len(PrefixStderr)
    /\ osStdout[1].kind = "echo"

-----------------------------------------------------------------------------
(* The two streams of one command, checked under SpecRun. *)

\* A fresh prefixWriter with the prefix pre fed the chunks alone, its
\* destination accepting every write: the flag it ends with and the bytes
\* it sent.
RECURSIVE FedAlone(_, _)
FedAlone(chunks, pre) ==
    IF chunks = <<>> THEN [started |-> FALSE, dest |-> <<>>]
    ELSE LET before == FedAlone(SubSeq(chunks, 1, Len(chunks) - 1), pre)
             r == WriteResult(chunks[Len(chunks)], before.started, pre, NoFail)
         IN  [started |-> r.started, dest |-> before.dest \o Accepted(r.calls)]

\* The chunks of one kind in the history, since the latest start.
RECURSIVE ChunksOfKind(_, _)
ChunksOfKind(evs, kind) ==
    IF evs = <<>> \/ evs[Len(evs)].kind = "start" THEN <<>>
    ELSE ChunksOfKind(SubSeq(evs, 1, Len(evs) - 1), kind)
            \o (IF evs[Len(evs)].kind = kind THEN <<evs[Len(evs)].bytes>> ELSE <<>>)

\* C19: in whatever order the chunks of the two streams of a command
\* arrive, the stderr writer and the stdout writer each send what they
\* would send when fed their own chunks alone, and end with the flag they
\* would end with; the captured bytes are the stdout chunks, whatever
\* arrived on stderr and whether or not a write to standard error failed.
C19_StreamsIndependent ==
    /\ outChunks = ChunksOfKind(events, "out")
    /\ errChunks = ChunksOfKind(events, "err")
    /\ ~errErr => /\ errDest = FedAlone(errChunks, PrefixStderr).dest
                  /\ errStarted = FedAlone(errChunks, PrefixStderr).started
    /\ (verbose /\ ~outErr)
            => /\ outDest = FedAlone(outChunks, PrefixStdout).dest
               /\ outStarted = FedAlone(outChunks, PrefixStdout).started
    /\ ~outErr => capture = Concat(outChunks)

\* A stderr chunk arrived between two stdout chunks of one line, while a
\* line of stderr was open.
C19_Witness ==
    /\ verbose
    /\ ~outErr
    /\ ~errErr
    /\ outStarted
    /\ errStarted
    /\ \E i, j, k \in 1..Len(events) :
          /\ i < j
          /\ j < k
          /\ events[i].kind = "out"
          /\ events[j].kind = "err"
          /\ events[k].kind = "out"
          /\ NL \notin Bytes(events[i].bytes)
=============================================================================
